---- MODULE Spec2Model ----
(***************************************************************************)
(* Model of the "::: ai" container plugin (markdownItAiContainer.ts).      *)
(*                                                                         *)
(* A document is a sequence of lines.  A line is a record                  *)
(*   k    : what the line says ("open" = "::: ai", "close" = ":::",        *)
(*          "versions" = "versions:", "prompt" = "prompt: |",              *)
(*          "response" = "response: |", "model" = "model: x",              *)
(*          "interrupt" = "**Interrupt:**", "marker" = "**Thinking:**",    *)
(*          "open4c" = ":::: ai", "open2c" = ":: ai",                      *)
(*          "warning" = "::: warning", "kv" = "note: x" (a line of text    *)
(*          that begins with a word and a colon), "bad" = a line of text   *)
(*          on which the host's formatter raises an exception,             *)
(*          "text" = any other non-blank line (one that matches none of    *)
(*          the plugin's patterns), "blank" = an empty line,               *)
(*          "more"/"above"/"lines" = the three truncation marker texts)    *)
(*   ind  : number of leading whitespace columns                           *)
(*   dash : the line starts (after its indent) with the list marker "- "   *)
(*   n    : the count K printed in a truncation marker text, else 0        *)
(*   id   : the zero-based document line the text was taken from           *)
(*          (-1 for text the plugin made up); never read by the plugin,    *)
(*          it only lets the properties say where a line really came from  *)
(* A string is the sequence of its lines (its split on "\n"), so the       *)
(* empty string is the one-element sequence holding one empty line.        *)
(* Line numbers are zero-based as in the source; sequences are one-based.  *)
(*                                                                         *)
(* The host parser and its formatter are modelled at their boundary: the   *)
(* host calls the block rule on the line under its cursor and, when the    *)
(* rule declines, consumes that line itself; it also calls the rule in     *)
(* validation mode (silent = true) on the lines at and after its cursor;   *)
(* md.render annotates the elements of its input with line numbers         *)
(* counted from 0.  blkIndent is the host's state.blkIndent.               *)
(***************************************************************************)
EXTENDS Integers, Sequences, FiniteSets, TLC

VARIABLES src, blkIndent, line, tokens, call

vars == <<src, blkIndent, line, tokens, call>>

\* ---------------------------------------------------------------- bounds
MaxPre == 1
MaxBlank == 1
MaxLen == 14
MaxShort == 5
MaxScan == 3
MaxFieldLines == 1
MaxLit == 3
MaxProbeAhead == 1

\* ------------------------------------------------------- strings and lines
Ln(k, ind, dash) == [k |-> k, ind |-> ind, dash |-> dash, n |-> 0, id |-> -1]

EmptyLine == Ln("blank", 0, FALSE)

SkipText(k, skipped) == <<[k |-> k, ind |-> 0, dash |-> FALSE, n |-> skipped, id |-> -1]>>

SetMin(S) == CHOOSE x \in S : \A y \in S : x <= y

SetMax(S) == CHOOSE x \in S : \A y \in S : x >= y

\* line.trim() === ''
IsBlank(l) == l.k = "blank"

\* !text
IsEmptyText(text) == Len(text) = 1 /\ IsBlank(text[1]) /\ text[1].ind = 0

\* String.prototype.trim: drops leading and trailing blank lines and the
\* leading whitespace of the first line that is left
Trim(text) ==
    LET nb == {i \in 1..Len(text) : ~IsBlank(text[i])}
    IN  IF nb = {} THEN <<EmptyLine>>
        ELSE LET f == SetMin(nb)
                 l == SetMax(nb)
             IN  [i \in 1..(l - f + 1) |->
                    IF i = 1 THEN [text[f] EXCEPT !.ind = 0] ELSE text[f + i - 1]]

\* Array.prototype.join('\n'): an empty array joins to the empty string
Join(lines) == IF lines = <<>> THEN <<EmptyLine>> ELSE lines

\* String.prototype.split on newlines
Split(text) == text

\* Array.prototype.slice(from, to) with zero-based, end-exclusive bounds
Slice(lines, from, to) ==
    LET t == IF to > Len(lines) THEN Len(lines) ELSE to
    IN  IF from >= t THEN <<>> ELSE SubSeq(lines, from + 1, t)

\* number of consecutive blank lines right before (one-based) position i
BlankRunBefore(text, i) ==
    LET stops == {j \in 1..(i - 1) : ~IsBlank(text[j])}
    IN  IF stops = {} THEN i - 1 ELSE i - 1 - SetMax(stops)

\* number of consecutive empty lines right after (one-based) position i
BlankRunAfter(text, i) ==
    LET stops == {j \in (i + 1)..Len(text) : ~IsBlank(text[j])}
    IN  IF stops = {} THEN Len(text) - i ELSE SetMin(stops) - i - 1

\* ------------------------------------------------------------ FieldExtractor
\* /^\s*\w+:\s*/ : the sibling-key pattern
LooksLikeKey(l) == l.k \in {"prompt", "response", "model", "versions", "kv"} /\ ~l.dash

\* the for-loop of extractLiteralBlockWithOffset over the lines after the key
RECURSIVE CollectBlock_StopsOnDedent(_, _, _, _)
RECURSIVE CollectBlock(_, _, _, _)
CollectBlock_StopsOnDedent(lines, i, baseIndent, blockLines) ==
    IF i > Len(lines) THEN blockLines
    ELSE LET l == lines[i]
         IN  IF IsBlank(l)
             THEN CollectBlock_StopsOnDedent(lines, i + 1, baseIndent,
                                             Append(blockLines, [l EXCEPT !.ind = 0]))
             ELSE IF baseIndent = -1
             THEN IF l.ind = 0 THEN blockLines
                  ELSE CollectBlock_StopsOnDedent(lines, i + 1, l.ind, Append(blockLines, l))
             ELSE IF l.ind < baseIndent THEN blockLines
             ELSE CollectBlock_StopsOnDedent(lines, i + 1, baseIndent, Append(blockLines, l))

CollectBlock(lines, i, baseIndent, blockLines) ==
    IF i > Len(lines) THEN blockLines
    ELSE LET l == lines[i]
         IN  IF IsBlank(l)
             THEN CollectBlock(lines, i + 1, baseIndent,
                               Append(blockLines, [l EXCEPT !.ind = 0]))
             ELSE IF baseIndent = -1
             THEN IF l.ind = 0 THEN blockLines
                  ELSE CollectBlock(lines, i + 1, l.ind, Append(blockLines, l))
             ELSE IF l.ind < baseIndent /\ LooksLikeKey(l) THEN blockLines
             ELSE CollectBlock(lines, i + 1, baseIndent, Append(blockLines, l))

dedentLines(lines) ==
    IF lines = <<>> THEN <<EmptyLine>>
    ELSE LET nb == {i \in 1..Len(lines) : ~IsBlank(lines[i])}
         IN  IF nb = {} THEN Trim(Join(lines))
             ELSE LET minIndent == SetMin({lines[i].ind : i \in nb})
                      dedented == [i \in 1..Len(lines) |->
                          IF IsBlank(lines[i]) THEN [lines[i] EXCEPT !.ind = 0]
                          ELSE [lines[i] EXCEPT !.ind = @ - minIndent]]
                  IN  Trim(Join(dedented))

\* The regular expression ^\s*name:\s*\|\s*$ is matched with the m flag, so
\* its leading \s* starts at the first of the blank lines that precede the
\* key line and its trailing \s* runs to the end of the last empty line
\* that follows the key line.
extractLiteralBlockWithOffset_AbsentAtBase(content, fieldName, baseLineOffset) ==
    LET keys == {i \in 1..Len(content) : content[i].k = fieldName /\ ~content[i].dash}
    IN  IF keys = {} THEN [content |-> <<EmptyLine>>, lineOffset |-> baseLineOffset]
        ELSE LET key == SetMin(keys)
                 matchLine == key - BlankRunBefore(content, key)
                 lineOffset == baseLineOffset + (matchLine - 1)
                 startLine == key + BlankRunAfter(content, key)
                 lines == <<[EmptyLine EXCEPT !.id = content[startLine].id]>>
                          \o SubSeq(content, startLine + 1, Len(content))
             IN  [content |-> dedentLines(CollectBlock(lines, 1, -1, <<>>)),
                  lineOffset |-> lineOffset]

extractLiteralBlockWithOffset(content, fieldName, baseLineOffset) ==
    LET keys == {i \in 1..Len(content) : content[i].k = fieldName /\ ~content[i].dash}
    IN  IF keys = {} THEN [content |-> <<EmptyLine>>, lineOffset |-> 0]
        ELSE LET key == SetMin(keys)
                 matchLine == key - BlankRunBefore(content, key)
                 lineOffset == baseLineOffset + (matchLine - 1)
                 startLine == key + BlankRunAfter(content, key)
                 lines == <<[EmptyLine EXCEPT !.id = content[startLine].id]>>
                          \o SubSeq(content, startLine + 1, Len(content))
             IN  [content |-> dedentLines(CollectBlock(lines, 1, -1, <<>>)),
                  lineOffset |-> lineOffset]

extractSimpleFieldWithOffset(content, fieldName, baseLineOffset) ==
    LET keys == {i \in 1..Len(content) : content[i].k = fieldName /\ ~content[i].dash}
    IN  IF keys = {} THEN [content |-> <<EmptyLine>>, lineOffset |-> 0]
        ELSE LET key == SetMin(keys)
                 matchLine == key - BlankRunBefore(content, key)
             IN  [content |-> <<[content[key] EXCEPT !.ind = 0]>>,
                  lineOffset |-> baseLineOffset + (matchLine - 1)]

parseAiYaml(content) ==
    LET useVersions == \E i \in 1..Len(content) :
                          content[i].k = "versions" /\ ~content[i].dash
        dashes == {i \in 1..Len(content) : content[i].dash}
        versionMatch == useVersions /\ dashes # {}
        dashLine == SetMin(dashes)
        baseLineOffset ==
            IF versionMatch THEN dashLine - BlankRunBefore(content, dashLine) - 1 ELSE 0
        workingContent ==
            IF versionMatch
            THEN <<[content[dashLine] EXCEPT !.ind = 0, !.dash = FALSE]>>
                 \o SubSeq(content, dashLine + 1, Len(content))
            ELSE content
    IN  [prompt |-> extractLiteralBlockWithOffset(workingContent, "prompt", baseLineOffset),
         model |-> extractSimpleFieldWithOffset(workingContent, "model", baseLineOffset),
         response |-> extractLiteralBlockWithOffset(workingContent, "response", baseLineOffset)]

\* ---------------------------------------------------------- ContentSegmenter
Segment(text, lineStart, lineEnd) ==
    [text |-> text, lineStart |-> lineStart, lineEnd |-> lineEnd]

\* limitLines with the kept tail numbered one line too low
limitLines_TailStartOff(text, count, fromStart) ==
    IF IsEmptyText(text) THEN <<>>
    ELSE LET lines == Split(text)
             totalLines == Len(lines)
             skipped == totalLines - count
         IN  IF totalLines <= count
             THEN <<Segment(text, 0, totalLines - 1)>>
             ELSE IF fromStart
             THEN <<Segment(Join(Slice(lines, 0, count)), 0, count - 1),
                    Segment(SkipText("more", skipped), -1, -1)>>
             ELSE <<Segment(SkipText("above", skipped), -1, -1),
                    Segment(Join(Slice(lines, totalLines - count, totalLines)),
                            totalLines - count - 1, totalLines - 2)>>

\* limitLines truncating already at totalLines = count
limitLines_StrictThreshold(text, count, fromStart) ==
    IF IsEmptyText(text) THEN <<>>
    ELSE LET lines == Split(text)
             totalLines == Len(lines)
             skipped == totalLines - count
         IN  IF totalLines < count
             THEN <<Segment(text, 0, totalLines - 1)>>
             ELSE IF fromStart
             THEN <<Segment(Join(Slice(lines, 0, count)), 0, count - 1),
                    Segment(SkipText("more", skipped), -1, -1)>>
             ELSE <<Segment(SkipText("above", skipped), -1, -1),
                    Segment(Join(Slice(lines, totalLines - count, totalLines)),
                            totalLines - count, totalLines - 1)>>

limitLines(text, count, fromStart) ==
    IF IsEmptyText(text) THEN <<>>
    ELSE LET lines == Split(text)
             totalLines == Len(lines)
             skipped == totalLines - count
         IN  IF totalLines <= count
             THEN <<Segment(text, 0, totalLines - 1)>>
             ELSE IF fromStart
             THEN <<Segment(Join(Slice(lines, 0, count)), 0, count - 1),
                    Segment(SkipText("more", skipped), -1, -1)>>
             ELSE <<Segment(SkipText("above", skipped), -1, -1),
                    Segment(Join(Slice(lines, totalLines - count, totalLines)),
                            totalLines - count, totalLines - 1)>>

\* truncateMiddle truncating already at totalLines = first + last
truncateMiddle_StrictThreshold(text, first, last) ==
    IF IsEmptyText(text) THEN <<>>
    ELSE LET lines == Split(text)
             totalLines == Len(lines)
             lastStartLine == totalLines - last
             skipped == totalLines - first - last
         IN  IF totalLines < first + last
             THEN <<Segment(text, 0, totalLines - 1)>>
             ELSE <<Segment(Join(Slice(lines, 0, first)), 0, first - 1),
                    Segment(SkipText("lines", skipped), -1, -1),
                    Segment(Join(Slice(lines, lastStartLine, totalLines)),
                            lastStartLine, totalLines - 1)>>

truncateMiddle_LastEndOff(text, first, last) ==
    IF IsEmptyText(text) THEN <<>>
    ELSE LET lines == Split(text)
             totalLines == Len(lines)
             lastStartLine == totalLines - last
             skipped == totalLines - first - last
         IN  IF totalLines <= first + last
             THEN <<Segment(text, 0, totalLines - 1)>>
             ELSE <<Segment(Join(Slice(lines, 0, first)), 0, first - 1),
                    Segment(SkipText("lines", skipped), -1, -1),
                    Segment(Join(Slice(lines, lastStartLine, totalLines)),
                            lastStartLine, totalLines)>>

truncateMiddle(text, first, last) ==
    IF IsEmptyText(text) THEN <<>>
    ELSE LET lines == Split(text)
             totalLines == Len(lines)
             lastStartLine == totalLines - last
             skipped == totalLines - first - last
         IN  IF totalLines <= first + last
             THEN <<Segment(text, 0, totalLines - 1)>>
             ELSE <<Segment(Join(Slice(lines, 0, first)), 0, first - 1),
                    Segment(SkipText("lines", skipped), -1, -1),
                    Segment(Join(Slice(lines, lastStartLine, totalLines)),
                            lastStartLine, totalLines - 1)>>

\* adjustSegmentLineNumbers shifting the -1 sentinel like any other bound
adjustSegmentLineNumbers_NoGuard(segments, offset) ==
    [i \in 1..Len(segments) |->
        Segment(segments[i].text,
                segments[i].lineStart + offset,
                segments[i].lineEnd + offset)]

adjustSegmentLineNumbers(segments, offset) ==
    [i \in 1..Len(segments) |->
        Segment(segments[i].text,
                IF segments[i].lineStart >= 0 THEN segments[i].lineStart + offset ELSE -1,
                IF segments[i].lineEnd >= 0 THEN segments[i].lineEnd + offset ELSE -1)]

\* ---------------------------------------------------------- InterruptAnalyzer
\* /^\s*\*\*Interrupt:\*\*\s*$/
interruptMarker(l) == l.k = "interrupt"

\* /^\s*\*\*[A-Z][a-z]+:\*\*/ && line !== '**Interrupt:**'
aiMarker(l) == l.k = "marker" \/ (l.k = "interrupt" /\ l.ind > 0)

\* the first loop of parseResponseWithInterrupts; line numbers zero-based
FindInterrupts(lines) ==
    LET at == {i \in 0..(Len(lines) - 1) : interruptMarker(lines[i + 1])}
        markerOf(i) ==
            LET ms == {j \in (i + 1)..(Len(lines) - 1) : aiMarker(lines[j + 1])}
            IN  IF ms = {} THEN -1 ELSE SetMin(ms)
        nth(k) == CHOOSE i \in at : Cardinality({j \in at : j < i}) = k - 1
    IN  [k \in 1..Cardinality(at) |->
            [interruptLine |-> nth(k), markerLine |-> markerOf(nth(k))]]

\* the second loop of parseResponseWithInterrupts
RECURSIVE BuildSegments(_, _, _, _, _)
BuildSegments(lines, interrupts, i, currentPos, segments) ==
    IF i > Len(interrupts) THEN segments
    ELSE
    LET interruptLine == interrupts[i].interruptLine
        markerLine == interrupts[i].markerLine
        before ==
            IF interruptLine > currentPos
            THEN adjustSegmentLineNumbers(
                     truncateMiddle(Join(Slice(lines, currentPos, interruptLine)), 4, 8),
                     currentPos)
            ELSE <<>>
        itself == <<Segment(<<lines[interruptLine + 1]>>, interruptLine, interruptLine)>>
    IN  IF markerLine > 0
        THEN LET interruptContentStart == interruptLine + 1
                 contentText == Trim(Join(Slice(lines, interruptContentStart, markerLine)))
                 body == IF ~IsEmptyText(contentText)
                         THEN adjustSegmentLineNumbers(limitLines(contentText, 10, TRUE),
                                                       interruptContentStart)
                         ELSE <<>>
                 marker == <<Segment(<<lines[markerLine + 1]>>, markerLine, markerLine)>>
                 nextInterruptLine == IF i + 1 <= Len(interrupts)
                                      THEN interrupts[i + 1].interruptLine
                                      ELSE Len(lines)
                 afterMarkerStart == markerLine + 1
                 after ==
                     IF nextInterruptLine > markerLine + 1
                     THEN adjustSegmentLineNumbers(
                              truncateMiddle(
                                  Join(Slice(lines, afterMarkerStart, nextInterruptLine)), 4, 8),
                              afterMarkerStart)
                     ELSE <<>>
             IN  BuildSegments(lines, interrupts, i + 1, nextInterruptLine,
                               segments \o before \o itself \o body \o marker \o after)
        ELSE LET remainingStart == interruptLine + 1
                 remainingText == Trim(Join(Slice(lines, remainingStart, Len(lines))))
                 body == IF ~IsEmptyText(remainingText)
                         THEN adjustSegmentLineNumbers(limitLines(remainingText, 10, TRUE),
                                                       remainingStart)
                         ELSE <<>>
             IN  BuildSegments(lines, interrupts, i + 1, Len(lines),
                               segments \o before \o itself \o body)

parseResponseWithInterrupts(text) ==
    IF IsEmptyText(text) THEN <<>>
    ELSE LET lines == Split(text)
             interrupts == FindInterrupts(lines)
         IN  IF Len(interrupts) = 0 THEN limitLines(text, 10, FALSE)
             ELSE BuildSegments(lines, interrupts, 1, 0, <<>>)

\* -------------------------------------------------------------- OffsetRenderer
\* md.render(content, env) with the host's source-map plugin: every element
\* gets data-line = the zero-based line of content on which it starts.  Any
\* non-blank line can start an element (paragraph, heading, list item, ...);
\* rel keeps the value the formatter wrote, origin the document line the
\* element's text was taken from.
MdRender(content) ==
    LET idx == [i \in 1..Len(content) |-> i]
        starts == SelectSeq(idx, LAMBDA i : ~IsBlank(content[i]))
    IN  [j \in 1..Len(starts) |->
            [rel |-> starts[j] - 1, dataLine |-> starts[j] - 1,
             origin |-> content[starts[j]].id]]

\* renderWithLineOffset returning the formatter's output unadjusted
renderWithLineOffset_NoAdjust(content, lineOffset) ==
    IF IsEmptyText(content) THEN <<>>
    ELSE MdRender(content)

renderWithLineOffset(content, lineOffset) ==
    IF IsEmptyText(content) THEN <<>>
    ELSE LET html == MdRender(content)
         IN  [j \in 1..Len(html) |->
                 [html[j] EXCEPT !.dataLine = @ + lineOffset]]

\* segment.text.split('\n').map(line => line + '  ').join('\n')
TextWithBreaks(text) ==
    Join([i \in 1..Len(Split(text)) |->
             IF IsBlank(text[i]) THEN [text[i] EXCEPT !.ind = @ + 2] ELSE text[i]])

\* one part per segment: rendered tells whether md.render produced it,
\* dataLines are the data-line attributes found in the part
renderSegments_FromFieldStart(segments, baseLineOffset) ==
    [i \in 1..Len(segments) |->
        IF segments[i].lineStart < 0
        THEN [rendered |-> FALSE, dataLines |-> <<>>]
        ELSE [rendered |-> TRUE,
              dataLines |-> renderWithLineOffset(TextWithBreaks(segments[i].text),
                                                 segments[i].lineStart)]]

renderSegments(segments, baseLineOffset) ==
    [i \in 1..Len(segments) |->
        IF segments[i].lineStart < 0
        THEN [rendered |-> FALSE, dataLines |-> <<>>]
        ELSE [rendered |-> TRUE,
              dataLines |-> renderWithLineOffset(TextWithBreaks(segments[i].text),
                                                 baseLineOffset + segments[i].lineStart)]]

\* md.render(content, env) raises
MdThrows(content) == \E i \in 1..Len(content) : content[i].k = "bad"

\* renderSegments raises: md.render is called on every mapped segment whose
\* text is not empty, and nothing in renderSegments or renderWithLineOffset
\* catches
renderSegmentsThrows(segments) ==
    \E i \in 1..Len(segments) :
        /\ segments[i].lineStart >= 0
        /\ ~IsEmptyText(TextWithBreaks(segments[i].text))
        /\ MdThrows(TextWithBreaks(segments[i].text))

\* ----------------------------------------------------------- ContainerAssembler
\* generateAiContainerHTML raises: its try block encloses parseAiYaml only.
\* (Every segment is text of rawContent, so md.render cannot raise on a
\* segment unless it raises on a line of rawContent.)
generateAiContainerHTMLThrows(rawContent) ==
    /\ ~IsEmptyText(rawContent)
    /\ MdThrows(rawContent)
    /\ LET aiData == parseAiYaml(rawContent)
       IN  \/ renderSegmentsThrows(limitLines(aiData.prompt.content, 10, TRUE))
           \/ renderSegmentsThrows(parseResponseWithInterrupts(aiData.response.content))

generateAiContainerHTML_NoBlockLine(rawContent, sourceLine) ==
    IF IsEmptyText(rawContent)
    THEN [html |-> [class |-> "ai-error", dataLine |-> sourceLine,
                    message |-> "Empty AI container"]]
    ELSE LET aiData == parseAiYaml(rawContent)
             promptLine == sourceLine + aiData.prompt.lineOffset
             responseLine == sourceLine + aiData.response.lineOffset
             promptSegments == limitLines(aiData.prompt.content, 10, TRUE)
             responseSegments == parseResponseWithInterrupts(aiData.response.content)
             promptHtml == renderSegments(promptSegments, promptLine + 1)
             responseHtml == renderSegments(responseSegments, responseLine + 1)
         IN  [aiData |-> aiData,
              promptSegments |-> promptSegments,
              responseSegments |-> responseSegments,
              html |-> [class |-> "ai-container", dataLine |-> sourceLine,
                        prompt |-> [dataLine |-> promptLine, parts |-> promptHtml],
                        response |-> [dataLine |-> responseLine, parts |-> responseHtml]]]

generateAiContainerHTML(rawContent, sourceLine) ==
    IF IsEmptyText(rawContent)
    THEN [html |-> [class |-> "ai-error", dataLine |-> sourceLine,
                    message |-> "Empty AI container"]]
    ELSE LET aiData == parseAiYaml(rawContent)
             promptLine == sourceLine + 1 + aiData.prompt.lineOffset
             responseLine == sourceLine + 1 + aiData.response.lineOffset
             promptSegments == limitLines(aiData.prompt.content, 10, TRUE)
             responseSegments == parseResponseWithInterrupts(aiData.response.content)
             promptHtml == renderSegments(promptSegments, promptLine + 1)
             responseHtml == renderSegments(responseSegments, responseLine + 1)
         IN  [aiData |-> aiData,
              promptSegments |-> promptSegments,
              responseSegments |-> responseSegments,
              html |-> [class |-> "ai-container", dataLine |-> sourceLine,
                        prompt |-> [dataLine |-> promptLine, parts |-> promptHtml],
                        response |-> [dataLine |-> responseLine, parts |-> responseHtml]]]

\* ----------------------------------------------------------------- BlockLocator
minMarkerLen == 3

containerName == "ai"

\* state.skipChars(pos, _marker) - pos : the run of ':' at the start of the text
Colons(l) ==
    CASE l.k \in {"open", "close", "warning"} -> 3
      [] l.k = "open4c" -> 4
      [] l.k = "open2c" -> 2
      [] OTHER -> 0

\* state.src.slice(pos, max).trim() after the run of ':'
Params(l) ==
    CASE l.k \in {"open", "open4c", "open2c"} -> "ai"
      [] l.k = "warning" -> "warning"
      [] l.k = "close" -> ""
      [] OTHER -> "other"

\* the opening-marker test of aiContainer: its early returns, in order
IsOpening_IndentOffByOne(l) ==
    /\ ~(l.ind - blkIndent > 4)
    /\ Colons(l) >= 1
    /\ Colons(l) >= 2
    /\ Colons(l) >= 3
    /\ ~(Colons(l) < minMarkerLen)
    /\ Params(l) = containerName

IsOpening(l) ==
    /\ ~(l.ind - blkIndent >= 4)
    /\ Colons(l) >= 1
    /\ Colons(l) >= 2
    /\ Colons(l) >= 3
    /\ ~(Colons(l) < minMarkerLen)
    /\ Params(l) = containerName

\* lineContent === ':::' on a line that is not empty
IsClosing(l) == ~IsBlank(l) /\ Colons(l) = 3 /\ Params(l) = ""

\* the for (;;) loop of aiContainer, entered with nextLine already incremented
RECURSIVE ScanForClosing(_, _)
ScanForClosing(nextLine, endLine) ==
    IF nextLine >= endLine THEN [closingLine |-> -1, nextLine |-> nextLine]
    ELSE IF IsClosing(src[nextLine + 1])
         THEN [closingLine |-> nextLine, nextLine |-> nextLine]
         ELSE ScanForClosing(nextLine + 1, endLine)

\* the closing-marker search; lines are zero-based, endLine is the scan limit
ClosingLine_SkipsFirst(startLine, endLine) ==
    LET scan == ScanForClosing(startLine + 2, endLine)
    IN  IF scan.closingLine < 0 THEN scan.nextLine ELSE scan.closingLine

ClosingLine(startLine, endLine) ==
    LET scan == ScanForClosing(startLine + 1, endLine)
    IN  IF scan.closingLine < 0 THEN scan.nextLine ELSE scan.closingLine

\* whether the search left closingLine < 0
Outcome(startLine, endLine) ==
    IF ScanForClosing(startLine + 1, endLine).closingLine < 0 THEN "AUTO-CLOSED"
    ELSE "CLOSED"

RawContent_NoTrim(startLine, closingLine) ==
    Join(Slice(src, startLine + 1, closingLine))

RawContent(startLine, closingLine) ==
    Trim(Join(Slice(src, startLine + 1, closingLine)))

NoCall == [kind |-> "none"]

\* an exception has left the rule and ended the host's render
Aborted == call.kind = "threw"

\* aiContainer from the closing-marker search to its return true
Matched_CursorOnClosing(startLine, endLine) ==
    LET closingLine == ClosingLine(startLine, endLine)
        rawContent == RawContent(startLine, closingLine)
        gen == generateAiContainerHTML(rawContent, startLine)
    IN  /\ tokens' = Append(tokens, [type |-> "html_block",
                                     content |-> gen.html,
                                     map |-> <<startLine, closingLine + 1>>])
        /\ line' = closingLine
        /\ call' = [kind |-> "render", startLine |-> startLine, result |-> TRUE,
                    closingLine |-> closingLine,
                    outcome |-> Outcome(startLine, endLine),
                    rawContent |-> rawContent, gen |-> gen]

Matched_CountsBlocks(startLine, endLine) ==
    LET closingLine == ClosingLine(startLine, endLine)
        rawContent == RawContent(startLine, closingLine)
        gen == generateAiContainerHTML(rawContent, startLine + Len(tokens))
    IN  /\ tokens' = Append(tokens, [type |-> "html_block",
                                     content |-> gen.html,
                                     map |-> <<startLine, closingLine + 1>>])
        /\ line' = closingLine + 1
        /\ call' = [kind |-> "render", startLine |-> startLine, result |-> TRUE,
                    closingLine |-> closingLine,
                    outcome |-> Outcome(startLine, endLine),
                    rawContent |-> rawContent, gen |-> gen]

Matched(startLine, endLine) ==
    LET closingLine == ClosingLine(startLine, endLine)
        rawContent == RawContent(startLine, closingLine)
        gen == generateAiContainerHTML(rawContent, startLine)
    IN  /\ tokens' = Append(tokens, [type |-> "html_block",
                                     content |-> gen.html,
                                     map |-> <<startLine, closingLine + 1>>])
        /\ line' = closingLine + 1
        /\ call' = [kind |-> "render", startLine |-> startLine, result |-> TRUE,
                    closingLine |-> closingLine,
                    outcome |-> Outcome(startLine, endLine),
                    rawContent |-> rawContent, gen |-> gen]

\* aiContainer(state, startLine, endLine, silent = false) on a matching line
AiContainer ==
    /\ ~Aborted
    /\ line < Len(src)
    /\ IsOpening(src[line + 1])
    /\ ~generateAiContainerHTMLThrows(RawContent(line, ClosingLine(line, Len(src))))
    /\ Matched(line, Len(src))
    /\ UNCHANGED <<src, blkIndent>>

\* aiContainer(state, startLine, endLine, silent = false) on a matching line
\* when generateAiContainerHTML raises: the exception leaves the rule before
\* state.push and state.line are reached and ends the host's render
AiContainerThrows ==
    /\ ~Aborted
    /\ line < Len(src)
    /\ IsOpening(src[line + 1])
    /\ generateAiContainerHTMLThrows(RawContent(line, ClosingLine(line, Len(src))))
    /\ call' = [kind |-> "threw", startLine |-> line, result |-> TRUE]
    /\ UNCHANGED <<src, blkIndent, line, tokens>>

\* aiContainer(state, startLine, endLine, silent = false) on any other line:
\* one of the early returns is taken
AiContainerDeclines ==
    /\ ~Aborted
    /\ line < Len(src)
    /\ ~IsOpening(src[line + 1])
    /\ call' = [kind |-> "declined", startLine |-> line, result |-> FALSE]
    /\ UNCHANGED <<src, blkIndent, line, tokens>>

\* aiContainer(state, startLine, endLine, silent = true): the host asks whether
\* the rule would start a block on a line at or after its cursor
AiContainerSilent_FallsThrough ==
    \E startLine \in line..(line + MaxProbeAhead) :
        /\ ~Aborted
        /\ startLine < Len(src)
        /\ call' = [kind |-> "probe", startLine |-> startLine,
                    result |-> IsOpening(src[startLine + 1])]
        /\ IF IsOpening(src[startLine + 1])
           THEN LET closingLine == ClosingLine(startLine, Len(src))
                    rawContent == RawContent(startLine, closingLine)
                    gen == generateAiContainerHTML(rawContent, startLine)
                IN  /\ tokens' = Append(tokens, [type |-> "html_block",
                                                 content |-> gen.html,
                                                 map |-> <<startLine, closingLine + 1>>])
                    /\ line' = closingLine + 1
           ELSE UNCHANGED <<line, tokens>>
        /\ UNCHANGED <<src, blkIndent>>

AiContainerSilent ==
    \E startLine \in line..(line + MaxProbeAhead) :
        /\ ~Aborted
        /\ startLine < Len(src)
        /\ call' = [kind |-> "probe", startLine |-> startLine,
                    result |-> IsOpening(src[startLine + 1])]
        /\ UNCHANGED <<src, blkIndent, line, tokens>>

\* after the rule has returned false the host's default block handling takes
\* the line
HostFallback ==
    /\ line < Len(src)
    /\ call.kind = "declined"
    /\ call.startLine = line
    /\ line' = line + 1
    /\ call' = NoCall
    /\ UNCHANGED <<src, blkIndent, tokens>>

\* ------------------------------------------------------------------ documents
WithIds(lines) == [i \in 1..Len(lines) |-> [lines[i] EXCEPT !.id = i - 1]]

Rep(l, n) == [i \in 1..n |-> l]

Blanks(n) == Rep(EmptyLine, n)

Texts(n, ind) == Rep(Ln("text", ind, FALSE), n)

Indent(lines, ind) ==
    [i \in 1..Len(lines) |->
        IF IsBlank(lines[i]) THEN lines[i] ELSE [lines[i] EXCEPT !.ind = ind]]

Sites == {"afterOpen", "beforeDash", "afterPromptKey", "beforeResponseKey", "afterResponseKey"}

\* a block in the direct layout: keys at column 0, content at column 2
DirectBlock(b, promptLines, responseLines) ==
    <<Ln("open", 0, FALSE)>> \o Blanks(b["afterOpen"])
    \o <<Ln("prompt", 0, FALSE)>> \o Blanks(b["afterPromptKey"])
    \o Indent(promptLines, 2)
    \o <<Ln("model", 0, FALSE)>> \o Blanks(b["beforeResponseKey"])
    \o <<Ln("response", 0, FALSE)>> \o Blanks(b["afterResponseKey"])
    \o Indent(responseLines, 2)

\* a block in the versions-list layout: "versions:", then "  - prompt: |"
VersionsBlock(b, promptLines, responseLines) ==
    <<Ln("open", 0, FALSE)>> \o Blanks(b["afterOpen"])
    \o <<Ln("versions", 0, FALSE)>> \o Blanks(b["beforeDash"])
    \o <<Ln("prompt", 2, TRUE)>> \o Blanks(b["afterPromptKey"])
    \o Indent(promptLines, 6)
    \o <<Ln("model", 4, FALSE)>> \o Blanks(b["beforeResponseKey"])
    \o <<Ln("response", 4, FALSE)>> \o Blanks(b["afterResponseKey"])
    \o Indent(responseLines, 6)

NoBlanks == [s \in Sites |-> 0]

Closing == <<Ln("close", 0, FALSE), Ln("text", 0, FALSE)>>

I == Ln("interrupt", 0, FALSE)
M == Ln("marker", 0, FALSE)
T == Ln("text", 0, FALSE)

\* documents that vary the layout of the block around short fields
LayoutDocs ==
    {Texts(pre, 0)
       \o (IF versions THEN VersionsBlock(b, <<T>>, resp) ELSE DirectBlock(b, <<T>>, resp))
       \o (IF closed THEN Closing ELSE <<>>) :
     pre \in 0..MaxPre, versions \in BOOLEAN, b \in [Sites -> 0..MaxBlank],
     resp \in {<<T>>, <<T, I, EmptyLine, T, M, T>>}, closed \in BOOLEAN}

RECURSIVE SeqsUpTo(_, _)
SeqsUpTo(S, n) ==
    IF n = 0 THEN {<<>>}
    ELSE LET shorter == SeqsUpTo(S, n - 1)
         IN  shorter \cup {Append(q, x) : q \in {r \in shorter : Len(r) = n - 1}, x \in S}

\* documents whose response is any short sequence of lines
ShortDocs ==
    {DirectBlock(NoBlanks, <<T>>, resp) \o Closing :
     resp \in SeqsUpTo({T, EmptyLine, I, M}, MaxShort) \ {<<>>}}

\* documents whose response has one interrupt and its label between long regions
RegionDocs ==
    {DirectBlock(NoBlanks, <<T>>, Texts(p, 0) \o <<I>> \o Texts(q, 0) \o <<M>> \o Texts(t, 0))
       \o Closing :
     p \in 0..MaxLen, q \in 0..MaxLen, t \in 0..MaxLen}

\* documents with a long prompt and a long response without interrupts
PlainDocs ==
    {DirectBlock(NoBlanks, Texts(p, 0), Texts(r, 0)) \o Closing :
     p \in 0..MaxLen, r \in 0..MaxLen}

\* short documents of marker-like lines: "::: ai" at three indents, ":::: ai",
\* ":: ai", "::: warning", ":::", a line of text and an empty line
ScanLines ==
    {Ln("open", 0, FALSE), Ln("open", 4, FALSE), Ln("open", 6, FALSE),
     Ln("open4c", 0, FALSE), Ln("open2c", 0, FALSE), Ln("warning", 0, FALSE),
     Ln("close", 0, FALSE), T, EmptyLine}

ScanDocs == SeqsUpTo(ScanLines, MaxScan) \ {<<>>}

\* the fields of one mapping: p and r say how the prompt and the response key
\* occur (0 = not at all, n > 0 = the key line and n - 1 lines of content),
\* m whether there is a model line; keys at keyInd, content two columns deeper
ItemFields(shape, keyInd) ==
    (IF shape.p = 0 THEN <<>>
     ELSE <<Ln("prompt", keyInd, FALSE)>> \o Texts(shape.p - 1, keyInd + 2))
    \o (IF shape.m THEN <<Ln("model", keyInd, FALSE)>> ELSE <<>>)
    \o (IF shape.r = 0 THEN <<>>
        ELSE <<Ln("response", keyInd, FALSE)>> \o Texts(shape.r - 1, keyInd + 2))

\* the same fields as one item of the versions list: "  - " before the first key
ListItem(fields) ==
    IF fields = <<>> THEN <<>>
    ELSE <<[fields[1] EXCEPT !.ind = 2, !.dash = TRUE]>> \o Tail(fields)

Shapes == [p : 0..(MaxFieldLines + 1), m : BOOLEAN, r : 0..(MaxFieldLines + 1)]

\* documents whose block has any subset of the keys, with or without content,
\* in the direct layout or as one or two items of the versions list
ItemDocs ==
    {Texts(pre, 0) \o <<Ln("open", 0, FALSE)>> \o ItemFields(a, 0) \o Closing :
     pre \in 0..MaxPre, a \in Shapes}
    \cup
    {Texts(pre, 0) \o <<Ln("open", 0, FALSE), Ln("versions", 0, FALSE)>>
       \o ListItem(ItemFields(a, 4)) \o ListItem(ItemFields(b, 4)) \o Closing :
     pre \in 0..MaxPre, a \in Shapes, b \in Shapes}

\* lines a literal field may run into when its keys are at keyInd: text at the
\* content indent and at column 0, a line that begins with a word and a colon
\* at the key indent and at the content indent, a list item left of the keys,
\* a model line and an empty line
LiteralLines(keyInd) ==
    {Ln("text", keyInd + 2, FALSE), Ln("text", 0, FALSE),
     Ln("kv", keyInd, FALSE), Ln("kv", keyInd + 2, FALSE),
     Ln("text", IF keyInd >= 2 THEN keyInd - 2 ELSE 0, TRUE),
     Ln("model", keyInd, FALSE), EmptyLine}

\* documents whose response key is followed by any short sequence of such lines
LiteralDocs ==
    {<<Ln("open", 0, FALSE), Ln("prompt", 0, FALSE), Ln("text", 2, FALSE),
       Ln("response", 0, FALSE)>> \o resp \o Closing :
     resp \in SeqsUpTo(LiteralLines(0), MaxLit)}
    \cup
    {<<Ln("open", 0, FALSE), Ln("versions", 0, FALSE), Ln("prompt", 2, TRUE),
       Ln("text", 6, FALSE), Ln("response", 4, FALSE)>> \o resp \o Closing :
     resp \in SeqsUpTo(LiteralLines(4), MaxLit)}

\* a block from its opening marker to its last body line: without a body, with
\* a body of empty lines, and with fields in either layout
Blocks ==
    {<<Ln("open", 0, FALSE)>>,
     <<Ln("open", 0, FALSE), EmptyLine, EmptyLine>>,
     DirectBlock(NoBlanks, <<T>>, <<T>>),
     DirectBlock(NoBlanks, <<T>>, <<T, I, T, M, T>>),
     VersionsBlock(NoBlanks, <<T>>, <<T>>)}

\* documents with two blocks, the first one closed
TwoBlockDocs ==
    {Texts(pre, 0) \o b1 \o <<Ln("close", 0, FALSE)>> \o Texts(gap, 0) \o b2
       \o (IF closed THEN Closing ELSE <<>>) :
     pre \in 0..MaxPre, gap \in 0..MaxPre, b1 \in Blocks, b2 \in Blocks,
     closed \in BOOLEAN}

\* documents whose response is a short sequence of text, interrupt markers at
\* the content indent and two columns deeper, and labeled markers
InterruptDocs ==
    {<<Ln("open", 0, FALSE), Ln("prompt", 0, FALSE), Ln("text", 2, FALSE),
       Ln("response", 0, FALSE)>> \o resp \o Closing :
     resp \in SeqsUpTo({Ln("text", 2, FALSE), Ln("interrupt", 2, FALSE),
                        Ln("interrupt", 4, FALSE), Ln("marker", 2, FALSE)}, MaxLit)}

Bad == Ln("bad", 0, FALSE)

\* documents with a line the formatter raises on, in the prompt, in the
\* response, and in the part of a long response that is cut away
ThrowDocs ==
    {DirectBlock(NoBlanks, p, r) \o Closing :
     p \in {<<T>>, <<Bad>>, <<T, Bad>>},
     r \in {<<T>>, <<Bad>>, <<T, Bad>>, <<Bad>> \o Texts(11, 0)}}

\* a ten-line document whose block opens on line 7 and is never closed
UnclosedDocs ==
    {Texts(7, 0) \o <<Ln("open", 0, FALSE), Ln("prompt", 0, FALSE), Ln("text", 2, FALSE)>>}

Docs ==
    LayoutDocs \cup ShortDocs \cup RegionDocs \cup PlainDocs \cup ItemDocs \cup UnclosedDocs
    \cup LiteralDocs \cup TwoBlockDocs \cup ThrowDocs \cup InterruptDocs

Init ==
    /\ \/ src \in {WithIds(d) : d \in Docs} /\ blkIndent = 0
       \/ src \in {WithIds(d) : d \in ScanDocs} /\ blkIndent \in {0, 2}
    /\ line = 0
    /\ tokens = <<>>
    /\ call = NoCall

Next ==
    \/ AiContainer
    \/ AiContainerThrows
    \/ AiContainerDeclines
    \/ AiContainerSilent
    \/ HostFallback

Spec == Init /\ [][Next]_vars

\* ------------------------------------------------------------------ properties
Rendered == call.kind = "render" /\ call.gen.html.class = "ai-container"

FieldNames == {"prompt", "response"}

FieldText(f) == call.gen.aiData[f].content

FieldSegments(f) ==
    IF f = "prompt" THEN call.gen.promptSegments ELSE call.gen.responseSegments

FieldParts(f) == call.gen.html[f].parts

\* the document line, inside the block, that holds the key of field f
KeyLines(f) ==
    {j \in (call.startLine + 1)..(call.closingLine - 1) : src[j + 1].k = f}

IsMapped(seg) == seg.lineStart >= 0

MappedOf(segments) == SelectSeq(segments, IsMapped)

\* C1: every element the formatter annotated carries, after the rewrite, the
\* absolute document line its text was taken from.
C1_AnnotationsAreAbsolute ==
    Rendered =>
        \A f \in FieldNames : \A i \in 1..Len(FieldParts(f)) :
            \A j \in 1..Len(FieldParts(f)[i].dataLines) :
                FieldParts(f)[i].dataLines[j].dataLine
                    = FieldParts(f)[i].dataLines[j].origin

\* C2: the mapped segments of the response, in emission order, have
\* non-decreasing sourceLineStart and pairwise disjoint line ranges.
C2_SegmentsOrdered ==
    Rendered =>
        LET m == MappedOf(FieldSegments("response"))
        IN  \A i, j \in 1..Len(m) :
                i < j => /\ m[i].lineStart <= m[j].lineStart
                         /\ m[i].lineEnd < m[j].lineStart

\* C3 as claimed: a relative annotation v becomes
\* v + absoluteFieldStart + sourceLineStart, absoluteFieldStart being the
\* value on the field's wrapper.
C3_RewriteAddsFieldStart ==
    Rendered =>
        \A f \in FieldNames : \A i \in 1..Len(FieldParts(f)) :
            \A j \in 1..Len(FieldParts(f)[i].dataLines) :
                FieldParts(f)[i].dataLines[j].dataLine
                    = FieldParts(f)[i].dataLines[j].rel
                      + call.gen.html[f].dataLine + FieldSegments(f)[i].lineStart

\* C3 amended: a relative annotation v becomes
\* v + absoluteFieldStart + 1 + sourceLineStart (the content starts on the
\* line after the key line the wrapper is tagged with).
C3_RewriteAddsContentStart ==
    Rendered =>
        /\ \A f \in FieldNames :
              /\ call.gen.html[f].dataLine
                     = call.startLine + 1 + call.gen.aiData[f].lineOffset
              /\ Len(FieldParts(f)) = Len(FieldSegments(f))
              /\ \A i \in 1..Len(FieldParts(f)) :
                    \A j \in 1..Len(FieldParts(f)[i].dataLines) :
                        FieldParts(f)[i].dataLines[j].dataLine
                            = FieldParts(f)[i].dataLines[j].rel
                              + call.gen.html[f].dataLine + 1
                              + FieldSegments(f)[i].lineStart

C3_Witness ==
    /\ Rendered
    /\ \E i \in 1..Len(FieldParts("response")) :
          /\ FieldSegments("response")[i].lineStart > 0
          /\ \E j \in 1..Len(FieldParts("response")[i].dataLines) :
                FieldParts("response")[i].dataLines[j].rel > 0

\* C4: the wrapper of a field whose key is in the block is tagged with the
\* document line that holds the key, and lineOffset counts the lines between
\* startLine + 1 and that line.
C4_WrapperOnKeyLine ==
    Rendered =>
        \A f \in FieldNames :
            KeyLines(f) # {} =>
                /\ call.gen.aiData[f].lineOffset
                       = SetMin(KeyLines(f)) - (call.startLine + 1)
                /\ call.gen.html[f].dataLine = SetMin(KeyLines(f))

\* the number of lines of a field text; the empty text has none
LineCount(text) == IF IsEmptyText(text) THEN 0 ELSE Len(Split(text))

LinesKept(seg) == IF IsMapped(seg) THEN seg.lineEnd - seg.lineStart + 1 ELSE 0

LinesSkipped(seg) == IF IsMapped(seg) THEN 0 ELSE seg.text[1].n

\* lines accounted for by segments i, i+1, ...: kept lines plus skipped counts
RECURSIVE LinesAccounted(_, _)
LinesAccounted(segments, i) ==
    IF i > Len(segments) THEN 0
    ELSE LinesKept(segments[i]) + LinesSkipped(segments[i])
         + LinesAccounted(segments, i + 1)

\* C5: the segments of a field cover it: no line is in two mapped segments,
\* and the lines in mapped ranges plus the skipped counts K of the markers
\* add up to the field's line count.
C5_SegmentsCoverField ==
    Rendered =>
        \A f \in FieldNames :
            /\ \A r \in 0..(LineCount(FieldText(f)) - 1) :
                  Cardinality({i \in 1..Len(FieldSegments(f)) :
                                  /\ IsMapped(FieldSegments(f)[i])
                                  /\ FieldSegments(f)[i].lineStart <= r
                                  /\ r <= FieldSegments(f)[i].lineEnd}) <= 1
            /\ LinesAccounted(FieldSegments(f), 1) = LineCount(FieldText(f))

\* The windowing policies as the specification's table states them, applied
\* to the lines of a region that starts at field line off.
HeadPolicy(lines, N, off) ==
    IF lines = <<>> THEN <<>>
    ELSE IF Len(lines) <= N THEN <<Segment(lines, off, off + Len(lines) - 1)>>
    ELSE <<Segment(SubSeq(lines, 1, N), off, off + N - 1),
           Segment(SkipText("more", Len(lines) - N), -1, -1)>>

TailPolicy(lines, N, off) ==
    IF lines = <<>> THEN <<>>
    ELSE IF Len(lines) <= N THEN <<Segment(lines, off, off + Len(lines) - 1)>>
    ELSE <<Segment(SkipText("above", Len(lines) - N), -1, -1),
           Segment(SubSeq(lines, Len(lines) - N + 1, Len(lines)),
                   off + Len(lines) - N, off + Len(lines) - 1)>>

HeadTailPolicy(lines, F, L, off) ==
    IF lines = <<>> THEN <<>>
    ELSE IF Len(lines) <= F + L THEN <<Segment(lines, off, off + Len(lines) - 1)>>
    ELSE <<Segment(SubSeq(lines, 1, F), off, off + F - 1),
           Segment(SkipText("lines", Len(lines) - F - L), -1, -1),
           Segment(SubSeq(lines, Len(lines) - L + 1, Len(lines)),
                   off + Len(lines) - L, off + Len(lines) - 1)>>

ResponseLines == Split(FieldText("response"))

InterruptLines == {i \in 0..(Len(ResponseLines) - 1) : ResponseLines[i + 1].k = "interrupt"}

LabelLinesAfter(i) ==
    {j \in (i + 1)..(Len(ResponseLines) - 1) : ResponseLines[j + 1].k = "marker"}

\* the response holds exactly one interrupt marker and a labeled marker after it
OneInterruptWithLabel ==
    /\ Rendered
    /\ ~IsEmptyText(FieldText("response"))
    /\ Cardinality(InterruptLines) = 1
    /\ LabelLinesAfter(SetMin(InterruptLines)) # {}

\* the interrupt body, lines [i+1, m), holds at least one non-blank line
BodyHasText ==
    LET i == SetMin(InterruptLines)
        m == SetMin(LabelLinesAfter(i))
    IN  \E r \in (i + 1)..(m - 1) : ~IsBlank(ResponseLines[r + 1])

\* C6: with one interrupt at line i and its label at line m the response
\* segments are HeadTail(4,8) of [0,i), line i, Head(10) of [i+1,m), line m,
\* HeadTail(4,8) of [m+1,n), each numbered from the field start (stated for
\* the responses whose interrupt body holds some text).
C6_OneInterruptRegions ==
    (OneInterruptWithLabel /\ BodyHasText) =>
        LET lines == ResponseLines
            i == SetMin(InterruptLines)
            m == SetMin(LabelLinesAfter(i))
        IN  FieldSegments("response")
              = HeadTailPolicy(Slice(lines, 0, i), 4, 8, 0)
                \o <<Segment(<<lines[i + 1]>>, i, i)>>
                \o HeadPolicy(Slice(lines, i + 1, m), 10, i + 1)
                \o <<Segment(<<lines[m + 1]>>, m, m)>>
                \o HeadTailPolicy(Slice(lines, m + 1, Len(lines)), 4, 8, m + 1)

\* C7: a prompt of n > 10 lines yields the mapped segment [0, 9] and a marker
\* reporting n - 10 more lines; a response without interrupts of n > 10 lines
\* yields a marker reporting n - 10 lines above and the mapped segment
\* [n - 10, n - 1]; the kept lines are the field's own lines of those numbers.
C7_HeadAndTailOfTen ==
    Rendered =>
        /\ LineCount(FieldText("prompt")) > 10 =>
              LET lines == Split(FieldText("prompt"))
              IN  FieldSegments("prompt")
                    = <<Segment(SubSeq(lines, 1, 10), 0, 9),
                        Segment(SkipText("more", Len(lines) - 10), -1, -1)>>
        /\ (LineCount(FieldText("response")) > 10 /\ InterruptLines = {}) =>
              LET lines == ResponseLines
                  n == Len(lines)
              IN  FieldSegments("response")
                    = <<Segment(SkipText("above", n - 10), -1, -1),
                        Segment(SubSeq(lines, n - 9, n), n - 10, n - 1)>>

C7_Witness ==
    /\ Rendered
    /\ LineCount(FieldText("prompt")) > 10
    /\ LineCount(FieldText("response")) > 10
    /\ InterruptLines = {}
    /\ Len(FieldSegments("prompt")) = 2
    /\ Len(FieldSegments("response")) = 2


\* the regions parseResponseWithInterrupts hands to truncateMiddle: the lines
\* before the first interrupt and, for every interrupt with a label, the
\* lines from the label to the next interrupt or the end of the field
HeadTailRegions(lines) ==
    LET interrupts == FindInterrupts(lines)
        nextOf(k) == IF k + 1 <= Len(interrupts)
                     THEN interrupts[k + 1].interruptLine ELSE Len(lines)
    IN  {[start |-> 0, lines |-> Slice(lines, 0, interrupts[k].interruptLine)] :
            k \in {k \in 1..Len(interrupts) : k = 1 /\ interrupts[k].interruptLine > 0}}
        \cup
        {[start |-> interrupts[k].markerLine + 1,
          lines |-> Slice(lines, interrupts[k].markerLine + 1, nextOf(k))] :
            k \in {k \in 1..Len(interrupts) :
                      /\ interrupts[k].markerLine > 0
                      /\ nextOf(k) > interrupts[k].markerLine + 1}}

ResponseRegions ==
    IF IsEmptyText(FieldText("response")) THEN {} ELSE HeadTailRegions(ResponseLines)

\* the response segments hold exactly `expected` for region c: right after
\* the segment of the label line before the region (or first, for the region
\* that opens the field) and right before the segment of the interrupt line
\* that ends the region (or last)
EmittedFor(c, expected) ==
    LET segs == FieldSegments("response")
        n == Len(expected)
    IN  \E q \in 0..Len(segs) :
            /\ IF c.start = 0 THEN q = 0
               ELSE q > 0 /\ segs[q] = Segment(<<ResponseLines[c.start]>>,
                                                c.start - 1, c.start - 1)
            /\ q + n <= Len(segs)
            /\ SubSeq(segs, q + 1, q + n) = expected
            /\ \/ q + n = Len(segs)
               \/ segs[q + n + 1].lineStart = c.start + Len(c.lines)

IsSynthetic(seg) == seg.text[1].k \in {"more", "above", "lines"}

\* C10: a synthetic segment has sourceLineStart = sourceLineEnd = -1, is not
\* given to the formatter and its output holds no position annotation; every
\* other segment is mapped and is the only kind rendered by the formatter.
C10_SyntheticNeverAnnotated ==
    Rendered =>
        \A f \in FieldNames :
            /\ Len(FieldParts(f)) = Len(FieldSegments(f))
            /\ \A i \in 1..Len(FieldSegments(f)) :
                  LET seg == FieldSegments(f)[i]
                      part == FieldParts(f)[i]
                  IN  IF IsSynthetic(seg)
                      THEN /\ seg.lineStart = -1 /\ seg.lineEnd = -1
                           /\ ~part.rendered
                           /\ part.dataLines = <<>>
                      ELSE /\ seg.lineStart >= 0 /\ seg.lineEnd >= seg.lineStart
                           /\ part.rendered

C10_Witness ==
    /\ Rendered
    /\ \E i \in 1..Len(FieldSegments("response")) :
          /\ IsSynthetic(FieldSegments("response")[i])
          /\ FieldSegments("response")[i].text[1].k = "more"
    /\ \E i \in 1..Len(FieldSegments("response")) :
          /\ IsSynthetic(FieldSegments("response")[i])
          /\ FieldSegments("response")[i].text[1].k = "lines"
          /\ ~FieldParts("response")[i].rendered

\* the node the rule pushed last
LastToken == tokens[Len(tokens)]

\* C11: the outer wrapper of a block that starts on line s is tagged s, and the
\* wrapper of each field is tagged s + 1 + o, o being the lineOffset the
\* extractor returned for the field; a field whose key is nowhere in the
\* block has o = 0 and its wrapper is tagged s + 1.
C11_WrapperTags ==
    call.kind = "render" =>
        /\ LastToken.content = call.gen.html
        /\ LastToken.content.dataLine = LastToken.map[1]
        /\ LastToken.map[1] = call.startLine
        /\ Rendered =>
              \A f \in FieldNames :
                  /\ LastToken.content[f].dataLine
                        = call.startLine + 1 + call.gen.aiData[f].lineOffset
                  /\ KeyLines(f) = {} =>
                        LastToken.content[f].dataLine = call.startLine + 1

C11_Witness ==
    /\ Rendered
    /\ call.startLine > 0
    /\ \E f, g \in FieldNames :
           /\ KeyLines(f) = {}
           /\ call.gen.aiData[g].lineOffset > 0
           /\ call.gen.html[g].dataLine > call.startLine + 1

\* the lines after line s whose trimmed content is exactly ":::"
ClosersAfter(s) == {j \in (s + 1)..(Len(src) - 1) : src[j + 1].k = "close"}

\* C12: once the opening marker has matched in normal mode, the search for the
\* closing marker ends in exactly one of two ways: CLOSED on the first later
\* line that is ":::" (an opening marker in between changes nothing), or, when
\* there is no such line, AUTO-CLOSED with the end line equal to the number of
\* lines of the document, which is not reported as an error.
C12_ScanOutcome ==
    call.kind = "render" =>
        /\ call.outcome \in {"CLOSED", "AUTO-CLOSED"}
        /\ IF ClosersAfter(call.startLine) # {}
           THEN /\ call.outcome = "CLOSED"
                /\ call.closingLine = SetMin(ClosersAfter(call.startLine))
           ELSE /\ call.outcome = "AUTO-CLOSED"
                /\ call.closingLine = Len(src)
                /\ (\E j \in (call.startLine + 1)..(Len(src) - 1) : ~IsBlank(src[j + 1]))
                      => call.gen.html.class = "ai-container"

C12_Witness ==
    /\ call.kind = "render"
    /\ call.startLine = 7
    /\ Len(src) = 10
    /\ call.outcome = "AUTO-CLOSED"
    /\ call.closingLine = 10

\* the end line of a block that starts on line s: its closing-marker line or,
\* without one, the auto-close line
EndLineOf(s) ==
    IF ClosersAfter(s) # {} THEN SetMin(ClosersAfter(s)) ELSE Len(src)

\* a step in which the rule, called in normal mode, matched
MatchStep ==
    /\ line < Len(src)
    /\ call' # call
    /\ call'.kind = "render"

\* what C13 asks of one step
OneNodePerMatch ==
    /\ MatchStep =>
          /\ Len(tokens') = Len(tokens) + 1
          /\ SubSeq(tokens', 1, Len(tokens)) = tokens
          /\ tokens'[Len(tokens')].type = "html_block"
          /\ tokens'[Len(tokens')].map = <<line, EndLineOf(line) + 1>>
          /\ line' = EndLineOf(line) + 1
    /\ tokens' # tokens => MatchStep

\* C13: every successful match in normal mode pushes exactly one node, whose
\* span is [startLine, endLine + 1), and moves the cursor to endLine + 1; the
\* rule pushes nothing else, so no node lies on the lines in between.
C13_OneNodePerMatch ==
    /\ [][OneNodePerMatch]_vars
    /\ [](\A i, j \in 1..Len(tokens) :
             i < j => tokens[i].map[2] <= tokens[j].map[1])

C13_Witness ==
    /\ Len(tokens) = 2
    /\ tokens[1].map[2] > tokens[1].map[1] + 1
    /\ call.kind = "render"
    /\ line = tokens[2].map[2]

\* the text of line l begins, at an indent of less than 4 columns relative to
\* the enclosing block, with three or more ':' followed by exactly "ai"
OpensAiBlock(l) == l.ind - blkIndent < 4 /\ l.k \in {"open", "open4c"}

\* C14: the rule matches a line iff its indentation relative to the block
\* indent is less than 4, it begins with at least three ':' and the trimmed
\* rest is exactly "ai"; "::: warning" is not a match; the answer is the same
\* in validation mode and in normal mode, with or without a closing marker.
C14_MatchDecision ==
    call.kind \in {"probe", "declined", "render"} =>
        /\ call.result = OpensAiBlock(src[call.startLine + 1])
        /\ src[call.startLine + 1].k = "warning" => ~call.result

C14_Witness ==
    /\ call.kind = "probe"
    /\ call.result
    /\ blkIndent = 2
    /\ src[call.startLine + 1].ind = 4
    /\ ClosersAfter(call.startLine) = {}

\* a step in which the rule ran in validation mode or returned false
ProbeOrDeclineStep == call' # call /\ call'.kind \in {"probe", "declined"}

\* C15: in validation mode, and whenever it does not match, the rule pushes
\* no node and leaves the cursor and the rest of the host's state as it found
\* them.
C15_ProbeAndDeclineFrame ==
    [][ProbeOrDeclineStep => UNCHANGED <<src, blkIndent, line, tokens>>]_vars

C15_Witness ==
    /\ call.kind = "probe"
    /\ call.result
    /\ call.startLine = line
    /\ tokens = <<>>

\* the text of line l begins with optional whitespace, word characters and a
\* colon
IsSiblingKeyText(l) ==
    l.k \in {"prompt", "response", "model", "versions", "kv"} /\ ~l.dash

\* the lines of the block after the key line k of a literal field, up to the
\* block's end
AfterKey(k) == (k + 1)..(call.closingLine - 1)

\* the first line after key line k that is not blank, or -1
FirstContent(k) ==
    LET nb == {j \in AfterKey(k) : ~IsBlank(src[j + 1])}
    IN  IF nb = {} THEN -1 ELSE SetMin(nb)

\* the first line after the first content line c that is not blank, has less
\* indentation than c and reads as a sibling key; the block's end if none
StopLine(c) ==
    LET stops == {j \in (c + 1)..(call.closingLine - 1) :
                    /\ ~IsBlank(src[j + 1])
                    /\ src[j + 1].ind < src[c + 1].ind
                    /\ IsSiblingKeyText(src[j + 1])}
    IN  IF stops = {} THEN call.closingLine ELSE SetMin(stops)

\* the document lines a text was taken from, in order
IdsOf(text) == IF IsEmptyText(text) THEN <<>> ELSE [i \in 1..Len(text) |-> text[i].id]

\* the lines from..to with the blank lines at the end dropped
UpToLastText(from, to) ==
    LET nb == {j \in from..to : ~IsBlank(src[j + 1])}
    IN  [i \in 1..(SetMax(nb) - from + 1) |-> from + i - 1]

\* the list-marker lines of the block
ItemLines ==
    {j \in (call.startLine + 1)..(call.closingLine - 1) :
        src[j + 1].dash /\ src[j + 1].k \in {"prompt", "model", "response"}}

\* field f has one key line in the block, and it is not the marker line of a
\* second or later list item
OneKey(f) ==
    /\ Cardinality(KeyLines(f)) = 1
    /\ \A k \in KeyLines(f) : src[k + 1].dash => k = SetMin(ItemLines)

\* C16: once the first content line of a literal field has fixed the base
\* indent, every blank line is part of the field, a non-blank line ends the
\* field iff it has less indentation than the base indent and reads as a
\* sibling key, and every other line is part of the field whatever its
\* indentation.  (The field's text is trimmed, so blank lines at its end are
\* not in it.)  Stated for a field whose key occurs once in the block, not
\* on the marker line of a later list item.
C16_LiteralBlockEnd ==
    Rendered =>
        \A f \in FieldNames :
            (/\ OneKey(f)
             /\ FirstContent(SetMin(KeyLines(f))) # -1
             /\ src[FirstContent(SetMin(KeyLines(f))) + 1].ind > 0)
            => LET c == FirstContent(SetMin(KeyLines(f)))
               IN  IdsOf(FieldText(f)) = UpToLastText(c, StopLine(c) - 1)

C16_Witness ==
    /\ Rendered
    /\ OneKey("response")
    /\ LET text == FieldText("response")
           last == text[Len(text)].id
       IN  /\ Len(text) >= 2
           /\ src[text[1].id + 1].ind > 0
           /\ \E i \in 2..Len(text) : src[text[i].id + 1].ind = 0 /\ ~IsBlank(text[i])
           /\ last + 1 < call.closingLine
           /\ IsSiblingKeyText(src[last + 2])

\* the key line k of a literal field has no content lines: the next line that
\* is not blank is a sibling key, or the block ends
NoContentAfter(k) ==
    \/ FirstContent(k) = -1
    \/ /\ src[FirstContent(k) + 1].k \in {"prompt", "model", "response"}
       /\ ~src[FirstContent(k) + 1].dash

\* C17: a literal field whose key line has no content lines yields empty text
\* and leaves its siblings to be extracted as fields of their own, in the
\* direct layout and in the versions-list layout, also when the empty field
\* is the first key, on the list-marker line.  Stated for blocks with at most
\* one list item.
C17_EmptyLiteralField ==
    (Rendered /\ Cardinality(ItemLines) <= 1) =>
        \A f \in FieldNames :
            (OneKey(f) /\ NoContentAfter(SetMin(KeyLines(f)))) =>
                /\ IsEmptyText(FieldText(f))
                /\ \A g \in FieldNames \ {f} :
                       OneKey(g) =>
                           \A i \in 1..Len(IdsOf(FieldText(g))) :
                               IdsOf(FieldText(g))[i] > SetMin(KeyLines(g))

\* the marker line of the second list item
SecondItemLine == SetMin(ItemLines \ {SetMin(ItemLines)})

\* C18: in the versions-list layout only the first list item is read: with
\* two or more items no field's text reaches the second item's marker line,
\* and a field whose key is missing from the first item is absent (empty
\* text, lineOffset 0) rather than taken from a later item.
C18_FirstItemOnly ==
    (Rendered /\ Cardinality(ItemLines) >= 2) =>
        \A f \in FieldNames :
            /\ \A i \in 1..Len(IdsOf(FieldText(f))) :
                   IdsOf(FieldText(f))[i] < SecondItemLine
            /\ (\A k \in KeyLines(f) : k >= SecondItemLine) =>
                   /\ IsEmptyText(FieldText(f))
                   /\ call.gen.aiData[f].lineOffset = 0

\* C19: a field whose key does not occur in the block is returned as empty
\* text with lineOffset 0; the block is still rendered as a container, the
\* field's wrapper is emitted without content, and a field that is there is
\* rendered as usual.
C19_AbsentField ==
    (/\ call.kind = "render"
     /\ \E f, g \in FieldNames : KeyLines(f) = {} /\ KeyLines(g) # {}) =>
        /\ call.gen.html.class = "ai-container"
        /\ \A f \in FieldNames :
               KeyLines(f) = {} =>
                   /\ IsEmptyText(FieldText(f))
                   /\ call.gen.aiData[f].lineOffset = 0
                   /\ FieldParts(f) = <<>>
                   /\ call.gen.html[f].dataLine = call.startLine + 1
        /\ \A g \in FieldNames :
               (/\ OneKey(g)
                /\ FirstContent(SetMin(KeyLines(g))) # -1
                /\ src[FirstContent(SetMin(KeyLines(g))) + 1].ind > 0) =>
                   /\ ~IsEmptyText(FieldText(g))
                   /\ FieldText(g)[1].id = FirstContent(SetMin(KeyLines(g)))
                   /\ Len(FieldParts(g)) >= 1
                   /\ FieldParts(g)[1].rendered
                   /\ call.gen.html[g].dataLine
                         = call.startLine + 1 + call.gen.aiData[g].lineOffset

C19_Witness ==
    /\ Rendered
    /\ call.startLine > 0
    /\ KeyLines("prompt") = {}
    /\ src[call.startLine + 2].k = "versions"
    /\ OneKey("response")
    /\ ~IsEmptyText(FieldText("response"))
    /\ FieldParts("prompt") = <<>>

\* the block has no line that reads as one of the plugin's field keys
NoFieldKey ==
    \A j \in (call.startLine + 1)..(call.closingLine - 1) :
        src[j + 1].k \notin {"prompt", "model", "response"}

\* C20: a block whose body is not empty but has no recognizable field is
\* rendered as a diagnostic fragment, not as a container.
C20_UnparsableBodyDiagnostic ==
    (call.kind = "render" /\ ~IsEmptyText(call.rawContent) /\ NoFieldKey) =>
        call.gen.html.class = "ai-error"

\* the lines between the opening marker on line s and the block's end line
BodyLines(s) == (s + 1)..(EndLineOf(s) - 1)

\* C21: a block whose body is empty or only whitespace is rendered as the
\* "Empty AI container" diagnostic; every diagnostic is tagged with the
\* block's start line, is one node over the block's whole span, and the
\* cursor moves on behind the block so that the rest of the document is
\* still processed.
C21_EmptyBodyDiagnostic ==
    /\ \A i \in 1..Len(tokens) :
          LET t == tokens[i]
              s == t.map[1]
          IN  /\ (\A j \in BodyLines(s) : IsBlank(src[j + 1])) =>
                     /\ t.content.class = "ai-error"
                     /\ t.content.message = "Empty AI container"
              /\ t.content.class = "ai-error" =>
                     /\ t.content.dataLine = s
                     /\ t.map = <<s, EndLineOf(s) + 1>>
                     /\ line >= t.map[2]
    /\ (call.kind = "render" /\ call.gen.html.class = "ai-error") =>
          /\ Len(tokens) >= 1
          /\ LastToken.content = call.gen.html
          /\ line = LastToken.map[2]

C21_Witness ==
    /\ Len(tokens) = 2
    /\ tokens[1].content.class = "ai-error"
    /\ tokens[1].map[1] > 0
    /\ tokens[1].map[2] > tokens[1].map[1] + 2
    /\ tokens[2].content.class = "ai-container"
    /\ line >= Len(src)

\* C22: when the formatter raises while a mapped segment of a block is
\* rendered, the failure stays inside the block's pipeline: a diagnostic
\* tagged with the block's start line is pushed as the block's node and the
\* cursor moves behind the block.
C22_FormatterFailureContained ==
    call.kind = "threw" =>
        /\ Len(tokens) >= 1
        /\ LastToken.map[1] = call.startLine
        /\ LastToken.content.class = "ai-error"
        /\ LastToken.content.dataLine = call.startLine
        /\ line = LastToken.map[2]

\* the number of lines of text that segments i, i+1, ... hand to the formatter
RECURSIVE LinesFormatted(_, _)
LinesFormatted(segments, i) ==
    IF i > Len(segments) THEN 0
    ELSE (IF IsMapped(segments[i]) THEN Len(Split(segments[i].text)) ELSE 0)
         + LinesFormatted(segments, i + 1)

\* C23: the text handed to the formatter per field is capped by a constant
\* that does not depend on the field's length or on its interrupt markers:
\* 10 lines for the prompt, 10 lines for a response without interrupts, 26
\* lines for a response with interrupts.
C23_FormatterInputCapped ==
    Rendered =>
        /\ LinesFormatted(FieldSegments("prompt"), 1) <= 10
        /\ LinesFormatted(FieldSegments("response"), 1)
              <= (IF IsEmptyText(FieldText("response")) \/ InterruptLines = {}
                  THEN 10 ELSE 26)

\* the body of the block that starts on line s, without the ghost ids
BodyText(s) ==
    [k \in 1..Cardinality(BodyLines(s)) |-> [src[s + 1 + k] EXCEPT !.id = 0]]

\* a field wrapper with every position moved down by d lines
ShiftField(w, d) ==
    [dataLine |-> w.dataLine + d,
     parts |-> [i \in 1..Len(w.parts) |->
                  [rendered |-> w.parts[i].rendered,
                   dataLines |-> [j \in 1..Len(w.parts[i].dataLines) |->
                       [rel |-> w.parts[i].dataLines[j].rel,
                        dataLine |-> w.parts[i].dataLines[j].dataLine + d,
                        origin |-> w.parts[i].dataLines[j].origin + d]]]]]

\* a block's output with every position moved down by d lines
ShiftHtml(h, d) ==
    IF h.class = "ai-error" THEN [h EXCEPT !.dataLine = @ + d]
    ELSE [h EXCEPT !.dataLine = @ + d,
                   !.prompt = ShiftField(@, d),
                   !.response = ShiftField(@, d)]

C25_LabelIsNotInterrupt ==
    (Rendered /\ ~IsEmptyText(FieldText("response"))) =>
        LET interrupts == FindInterrupts(ResponseLines)
        IN  \A k \in 1..Len(interrupts) :
                interrupts[k].markerLine >= 0 =>
                    ResponseLines[interrupts[k].markerLine + 1].k # "interrupt"

\* the response holds exactly one interrupt marker and no labeled marker
\* after it
OneInterruptWithoutLabel ==
    /\ Rendered
    /\ ~IsEmptyText(FieldText("response"))
    /\ Cardinality(InterruptLines) = 1
    /\ LabelLinesAfter(SetMin(InterruptLines)) = {}

\* C26: for an interrupt at line i with no labeled marker after it, all the
\* remaining lines of the field form its body, windowed under Head(10) and
\* numbered from i + 1; no label segment and no region after a label follow.
C26_UnpairedInterruptBody ==
    OneInterruptWithoutLabel =>
        LET lines == ResponseLines
            i == SetMin(InterruptLines)
        IN  FieldSegments("response")
              = HeadTailPolicy(Slice(lines, 0, i), 4, 8, 0)
                \o <<Segment(<<lines[i + 1]>>, i, i)>>
                \o HeadPolicy(Slice(lines, i + 1, Len(lines)), 10, i + 1)

\* C27: every segment of a field either has both bounds -1, and then it is a
\* truncation marker, or has 0 <= sourceLineStart <= sourceLineEnd < the
\* field's line count, and then it is text of the field.
C27_SegmentBoundsWellFormed ==
    Rendered =>
        \A f \in FieldNames : \A i \in 1..Len(FieldSegments(f)) :
            LET seg == FieldSegments(f)[i]
            IN  IF IsSynthetic(seg)
                THEN seg.lineStart = -1 /\ seg.lineEnd = -1
                ELSE /\ seg.lineStart >= 0
                     /\ seg.lineStart <= seg.lineEnd
                     /\ seg.lineEnd < LineCount(FieldText(f))

C27_Witness ==
    /\ Rendered
    /\ \E i, j \in 1..Len(FieldSegments("response")) :
           /\ i < j
           /\ FieldSegments("response")[i].lineStart > 12
           /\ IsSynthetic(FieldSegments("response")[j])
           /\ j < Len(FieldSegments("response"))
           /\ FieldSegments("response")[j + 1].lineEnd
                 = LineCount(FieldText("response")) - 1

\* C28: the text of every mapped segment of a field is exactly the field's
\* lines sourceLineStart..sourceLineEnd, for every kind of region.
C28_SegmentTextIsFieldLines ==
    Rendered =>
        \A f \in FieldNames : \A i \in 1..Len(FieldSegments(f)) :
            LET seg == FieldSegments(f)[i]
            IN  IsMapped(seg) =>
                    seg.text = Slice(Split(FieldText(f)), seg.lineStart, seg.lineEnd + 1)

\* C29: after every match in normal mode, closed or auto-closed, the cursor
\* and the end of the node's span lie behind the start line and not behind
\* the scan limit, the number of lines of the document.
C29_CursorWithinScanLimit ==
    call.kind = "render" =>
        /\ call.startLine < line
        /\ line <= Len(src)
        /\ LastToken.map[2] <= Len(src)

\* C30: every position annotation of a block's output is a line of the
\* block's span: the outer wrapper's is the start line, those of the field
\* wrappers and of the rendered segments are greater than the start line,
\* and none is greater than the end line.
C30_AnnotationsInsideBlock ==
    call.kind = "render" =>
        /\ call.gen.html.dataLine >= call.startLine
        /\ call.gen.html.dataLine <= call.closingLine
        /\ Rendered =>
              \A f \in FieldNames :
                  /\ call.gen.html[f].dataLine > call.startLine
                  /\ call.gen.html[f].dataLine <= call.closingLine
                  /\ \A i \in 1..Len(FieldParts(f)) :
                        \A j \in 1..Len(FieldParts(f)[i].dataLines) :
                            /\ FieldParts(f)[i].dataLines[j].dataLine > call.startLine
                            /\ FieldParts(f)[i].dataLines[j].dataLine <= call.closingLine

C30_Witness ==
    /\ Rendered
    /\ call.startLine > 0
    /\ call.outcome = "CLOSED"
    /\ call.gen.html.prompt.dataLine = call.startLine + 1
    /\ \E i \in 1..Len(FieldParts("response")) :
           \E j \in 1..Len(FieldParts("response")[i].dataLines) :
               FieldParts("response")[i].dataLines[j].dataLine = call.closingLine - 1
====
